---- MODULE Spec2Model ----
(***************************************************************************)
(* bufbuild: the launcher that resolves, downloads, caches and runs buf.   *)
(* Model of src/buf.js (main, ensureInstalled) and src/util.js.            *)
(*                                                                         *)
(* A JavaScript string is a sequence of one-character strings, so that     *)
(* split, startsWith, endsWith, path.join and path.normalize are computed  *)
(* the way the code computes them.  undefined / a missing header is the    *)
(* empty option << >>, a present string s is the option <<s>>.             *)
(***************************************************************************)
EXTENDS Integers, Sequences, FiniteSets, TLC

\* ------------------------------------------------------------------------
\* String primitives of the JavaScript runtime used by the code
\* ------------------------------------------------------------------------

\* the option type: undefined, or a defined value
Undefined == << >>
Some(s) == <<s>>
IsDefined(o) == o # << >>
Val(o) == o[1]

\* String.prototype.startsWith
StartsWith(s, pre) ==
  Len(s) >= Len(pre) /\ SubSeq(s, 1, Len(pre)) = pre

\* String.prototype.endsWith
EndsWith(s, suf) ==
  Len(s) >= Len(suf) /\ SubSeq(s, Len(s) - Len(suf) + 1, Len(s)) = suf

\* String.prototype.slice(from) with a 0-based index from >= 0
Slice(s, from) == SubSeq(s, from + 1, Len(s))

\* String.prototype.indexOf(sep), 1-based; 0 when sep does not occur
IndexOf(s, sep) ==
  LET hits == { i \in 1..(Len(s) - Len(sep) + 1) : SubSeq(s, i, i + Len(sep) - 1) = sep }
  IN  IF hits = {} THEN 0 ELSE CHOOSE i \in hits : \A j \in hits : i <= j

\* String.prototype.split(sep) for a non-empty separator: the pieces between
\* the occurrences of sep found scanning left to right
RECURSIVE Split(_, _)
Split(s, sep) ==
  LET i == IndexOf(s, sep)
  IN  IF i = 0 THEN <<s>>
      ELSE <<SubSeq(s, 1, i - 1)>> \o Split(SubSeq(s, i + Len(sep), Len(s)), sep)

\* Array.prototype.join(sep)
RECURSIVE Join(_, _)
Join(parts, sep) ==
  IF Len(parts) = 0 THEN << >>
  ELSE IF Len(parts) = 1 THEN parts[1]
  ELSE parts[1] \o sep \o Join(Tail(parts), sep)

\* Array.prototype.pop(): the last element
Pop(parts) == parts[Len(parts)]

\* String.prototype.toUpperCase on one character
ToUpperCase(c) ==
  LET lower == <<"a","b","c","d","e","f","g","h","i","j","k","l","m","n","o","p","q","r","s","t","u","v","w","x","y","z">>
      upper == <<"A","B","C","D","E","F","G","H","I","J","K","L","M","N","O","P","Q","R","S","T","U","V","W","X","Y","Z">>
      at == { i \in 1..26 : lower[i] = c }
  IN  IF at = {} THEN c ELSE upper[CHOOSE i \in at : TRUE]

\* ------------------------------------------------------------------------
\* path (POSIX flavour): normalize, join, dirname, isAbsolute
\* ------------------------------------------------------------------------

sep == <<"/">>
delimiter == <<":">>

isAbsolute(p) == Len(p) > 0 /\ p[1] = "/"

\* normalizeString of node's path module: resolves "." and ".." segments and
\* drops empty ones; above the start of a relative path ".." is kept
RECURSIVE NormalizeSegs(_, _, _)
NormalizeSegs(segs, acc, allowAboveRoot) ==
  IF Len(segs) = 0 THEN acc
  ELSE LET s == segs[1]
           rest == Tail(segs)
       IN  IF s = << >> \/ s = <<".">> THEN NormalizeSegs(rest, acc, allowAboveRoot)
           ELSE IF s = <<".",".">>
             THEN IF Len(acc) > 0 /\ acc[Len(acc)] # <<".",".">>
                    THEN NormalizeSegs(rest, SubSeq(acc, 1, Len(acc) - 1), allowAboveRoot)
                  ELSE IF allowAboveRoot
                    THEN NormalizeSegs(rest, Append(acc, s), allowAboveRoot)
                  ELSE NormalizeSegs(rest, acc, allowAboveRoot)
           ELSE NormalizeSegs(rest, Append(acc, s), allowAboveRoot)

\* path.normalize
normalize(p) ==
  IF Len(p) = 0 THEN <<".">>
  ELSE LET abs == isAbsolute(p)
           trailing == p[Len(p)] = "/"
           body == Join(NormalizeSegs(Split(p, sep), << >>, ~abs), sep)
           body1 == IF Len(body) = 0 /\ ~abs THEN <<".">> ELSE body
           body2 == IF Len(body1) > 0 /\ trailing THEN body1 \o sep ELSE body1
       IN  IF abs THEN sep \o body2 ELSE body2

\* path.join(a, b): the non-empty arguments joined by "/" and normalized
join(a, b) ==
  LET args == SelectSeq(<<a, b>>, LAMBDA x : Len(x) > 0)
  IN  IF Len(args) = 0 THEN <<".">> ELSE normalize(Join(args, sep))

\* path.dirname
dirname(p) ==
  IF Len(p) = 0 THEN <<".">>
  ELSE LET hasRoot == p[1] = "/"
           \* the last character that is not a trailing slash
           nonSlash == { i \in 2..Len(p) : p[i] # "/" }
           lastNon == IF nonSlash = {} THEN 0
                      ELSE CHOOSE i \in nonSlash : \A j \in nonSlash : j <= i
           slashes == { i \in 2..Len(p) : p[i] = "/" /\ i < lastNon }
           end == IF slashes = {} THEN 0
                  ELSE CHOOSE i \in slashes : \A j \in slashes : j <= i
       IN  IF end = 0 THEN (IF hasRoot THEN sep ELSE <<".">>)
           ELSE IF hasRoot /\ end = 2 THEN <<"/","/">>
           ELSE SubSeq(p, 1, end - 1)


\* ------------------------------------------------------------------------
\* The filesystem: a function from normalized absolute paths to "dir" or,
\* for a file, its bytes.  "/" is always a directory.
\* ------------------------------------------------------------------------

DIR == "dir"

\* fs.existsSync
existsSync(f, p) == p \in DOMAIN f

\* fs.lstatSync(p).isDirectory()
isDirectory(f, p) == p \in DOMAIN f /\ f[p] = DIR

\* path.basename of a normalized path
basename(p) == Pop(Split(p, sep))

\* fs.readdirSync: the names of the entries of directory d
readdirSync(f, d) == { basename(q) : q \in { x \in DOMAIN f : x # d /\ dirname(x) = d } }

\* ------------------------------------------------------------------------
\* src/util.js
\* ------------------------------------------------------------------------

\* the directory of util.js
__dirname == <<"/","l","i","b">>

standardInstallDirectory == join(__dirname, <<"i","n","s","t","a","l","l","e","d">>)

\* listInstalled without the test of the 'buf-' prefix
listInstalledAnyName(f, installDir) ==
  IF ~existsSync(f, installDir) THEN {}
  ELSE UNION { LET abs == join(installDir, version)
               IN  IF ~isDirectory(f, abs) THEN {}
                   ELSE { [name |-> version \o <<"/">> \o binaryName,
                           version |-> version,
                           bufPath |-> join(abs, binaryName)] :
                          binaryName \in readdirSync(f, abs) } :
               version \in readdirSync(f, installDir) }

\* listInstalled: the entries {name, version, bufPath} of the binaries found
\* in the version folders of installDir (find() looks an entry up by its
\* name, which is unique, so the array is modelled as a set)
listInstalled(f, installDir) ==
  IF ~existsSync(f, installDir) THEN {}
  ELSE UNION { LET abs == join(installDir, version)
               IN  IF ~isDirectory(f, abs) THEN {}
                   ELSE { [name |-> version \o <<"/">> \o binaryName,
                           version |-> version,
                           bufPath |-> join(abs, binaryName)] :
                          binaryName \in { b \in readdirSync(f, abs) : StartsWith(b, <<"b","u","f","-">>) } } :
               version \in readdirSync(f, installDir) }

\* makeReleaseName without the renaming of the x64 architecture
makeReleaseNameRawArch(params) ==
  LET win == StartsWith(params.platform, <<"w","i","n">>)
      platform0 == IF win THEN <<"w","i","n","d","o","w","s">> ELSE params.platform
      ext == IF win THEN <<".","e","x","e">> ELSE << >>
      platform == <<ToUpperCase(platform0[1])>> \o Slice(platform0, 1)
  IN  params.version \o <<"/","b","u","f","-">> \o platform \o <<"-">> \o params.arch \o ext

\* makeReleaseName, params = [platform, arch, version]
makeReleaseName(params) ==
  LET win == StartsWith(params.platform, <<"w","i","n">>)
      platform0 == IF win THEN <<"w","i","n","d","o","w","s">> ELSE params.platform
      ext == IF win THEN <<".","e","x","e">> ELSE << >>
      platform == <<ToUpperCase(platform0[1])>> \o Slice(platform0, 1)
      arch == IF params.arch = <<"x","6","4">> THEN <<"x","8","6","_","6","4">> ELSE params.arch
  IN  params.version \o <<"/","b","u","f","-">> \o platform \o <<"-">> \o arch \o ext

\* errors raised inside util.js: kind is "http" (HTTP <status> for <url>),
\* "noRedirect" (Did not get expected redirect for <url>), "transport" (the
\* request's 'error' event) or "assert" (an AssertionError)
Cause(kind, status, url) == [kind |-> kind, status |-> status, url |-> url]
NoCause == Cause("none", 0, << >>)

isUrl(url) == StartsWith(url, <<"h","t","t","p","s",":","/","/">>) \/ StartsWith(url, <<"h","t","t","p",":","/","/">>)

\* httpGetAsserts with the bound on the chain off by one
httpGetAssertsUpToFour(url, redirects) ==
  IF ~(Len(url) > 0) THEN "assertUrl"
  ELSE IF ~isUrl(url) THEN "assertUrl"
  ELSE IF ~(Len(redirects) <= 4) THEN "assertRedirects"
  ELSE "ok"

\* the assertions at the head of httpGet (lines 124-127): "ok", or the
\* assertion that fails
httpGetAsserts(url, redirects) ==
  IF ~(Len(url) > 0) THEN "assertUrl"
  ELSE IF ~isUrl(url) THEN "assertUrl"
  ELSE IF ~(Len(redirects) <= 3) THEN "assertRedirects"
  ELSE "ok"

\* httpGetCallback taking every 2xx status for a success
httpGetCallbackAny2xx(url, redirects, statusCode, location) ==
  IF statusCode >= 300 /\ statusCode < 400
    THEN IF ~(IsDefined(location) /\ Len(Val(location)) > 0)
           THEN [tag |-> "throw", url |-> url, redirects |-> redirects,
                 error |-> Cause("assertLocation", statusCode, url)]
         ELSE LET next == Val(location)
                  chain == Append(redirects, next)
                  a == httpGetAsserts(next, chain)
              IN  IF a = "ok"
                    THEN [tag |-> "follow", url |-> next, redirects |-> chain, error |-> NoCause]
                  ELSE [tag |-> "throw", url |-> next, redirects |-> chain,
                        error |-> Cause(a, statusCode, next)]
  ELSE IF statusCode < 200 \/ statusCode >= 300
    THEN [tag |-> "reject", url |-> url, redirects |-> redirects,
          error |-> Cause("http", statusCode, url)]
  ELSE [tag |-> "resolve", url |-> url, redirects |-> redirects, error |-> NoCause]

\* the response callback of httpGet(url, redirects) for a response with
\* statusCode and the Location header location (an option):
\*   follow  - a further GET is issued to url with the chain redirects
\*   resolve - the promise resolves with the response
\*   reject  - the promise rejects with error
\*   throw   - an AssertionError is thrown inside the callback
httpGetCallback(url, redirects, statusCode, location) ==
  IF statusCode >= 300 /\ statusCode < 400
    THEN IF ~(IsDefined(location) /\ Len(Val(location)) > 0)
           THEN [tag |-> "throw", url |-> url, redirects |-> redirects,
                 error |-> Cause("assertLocation", statusCode, url)]
         ELSE LET next == Val(location)
                  chain == Append(redirects, next)
                  a == httpGetAsserts(next, chain)
              IN  IF a = "ok"
                    THEN [tag |-> "follow", url |-> next, redirects |-> chain, error |-> NoCause]
                  ELSE [tag |-> "throw", url |-> next, redirects |-> chain,
                        error |-> Cause(a, statusCode, next)]
  ELSE IF statusCode # 200
    THEN [tag |-> "reject", url |-> url, redirects |-> redirects,
          error |-> Cause("http", statusCode, url)]
  ELSE [tag |-> "resolve", url |-> url, redirects |-> redirects, error |-> NoCause]

\* httpGetRedirectCallback without the upper bound of the redirect range
httpGetRedirectCallbackFrom300(url, statusCode, location) ==
  IF statusCode >= 300
    THEN IF ~(IsDefined(location) /\ Len(Val(location)) > 0)
           THEN [tag |-> "throw", value |-> << >>, error |-> Cause("assertLocation", statusCode, url)]
         ELSE [tag |-> "resolve", value |-> Val(location), error |-> NoCause]
  ELSE IF statusCode # 200
    THEN [tag |-> "reject", value |-> << >>, error |-> Cause("http", statusCode, url)]
  ELSE [tag |-> "reject", value |-> << >>, error |-> Cause("noRedirect", statusCode, url)]

\* the response callback of httpGetRedirect(url)
httpGetRedirectCallback(url, statusCode, location) ==
  IF statusCode >= 300 /\ statusCode < 400
    THEN IF ~(IsDefined(location) /\ Len(Val(location)) > 0)
           THEN [tag |-> "throw", value |-> << >>, error |-> Cause("assertLocation", statusCode, url)]
         ELSE [tag |-> "resolve", value |-> Val(location), error |-> NoCause]
  ELSE IF statusCode # 200
    THEN [tag |-> "reject", value |-> << >>, error |-> Cause("http", statusCode, url)]
  ELSE [tag |-> "reject", value |-> << >>, error |-> Cause("noRedirect", statusCode, url)]

\* process.cwd() and os.homedir()
cwd == <<"/","p","r","o","j">>
homedir == <<"/","h","o","m","e","/","u">>

\* mkDirRecursive: the path the loop (lines 20-30) looks at in round i
mkDirParts(dir) ==
  Split(normalize(IF ~isAbsolute(dir) THEN join(cwd, dir) ELSE dir), sep)
mkDirPath(dir, i) == Join(SubSeq(mkDirParts(dir), 1, i), sep)

\* the path a filesystem call looks at: a relative one is taken from cwd
resolve(p) == IF isAbsolute(p) THEN normalize(p) ELSE join(cwd, p)

\* findBufInPath on the host h with the filesystem f; paths are POSIX ones,
\* path.delimiter is ":" and path.sep is "/"
RECURSIVE FirstExisting(_, _)
FirstExisting(f, candidates) ==
  IF Len(candidates) = 0 THEN Undefined
  ELSE IF existsSync(f, resolve(candidates[1])) THEN Some(candidates[1])
  ELSE FirstExisting(f, Tail(candidates))

findBufInPath(h, f, path) ==
  IF ~IsDefined(path) THEN Undefined
  ELSE LET exe == IF StartsWith(h.platform, <<"w","i","n">>) THEN <<"b","u","f",".","e","x","e">> ELSE <<"b","u","f">>
           kept1 == SelectSeq(Split(Val(path), delimiter),
                              LAMBDA q : ~EndsWith(q, <<"n","o","d","e","_","m","o","d","u","l","e","s">> \o sep \o <<".","b","i","n">>))
           kept2 == SelectSeq(kept1, LAMBDA q : ~EndsWith(q, <<".","n","p","m","-","g","l","o","b","a","l">> \o sep \o <<"b","i","n">>))
           joined == [k \in 1..Len(kept2) |-> join(kept2[k], exe)]
           candidates == [k \in 1..Len(joined) |->
                            IF joined[k][1] = "~" THEN join(homedir, Slice(joined[k], 1))
                            ELSE joined[k]]
       IN  FirstExisting(f, candidates)

\* JSON values: the type of the value, the characters of a string, and the
\* own properties of an object or an array
JNull == [type |-> "null", str |-> << >>, props |-> << >>]
JNumber == [type |-> "number", str |-> << >>, props |-> << >>]
JString(s) == [type |-> "string", str |-> s, props |-> << >>]
JArray == [type |-> "array", str |-> << >>, props |-> << >>]
JObject(props) == [type |-> "object", str |-> << >>, props |-> props]

\* JSON.parse of the manifest texts of the model; any other text is a
\* SyntaxError
JSONparse(text) ==
  LET ok(v) == [ok |-> TRUE, value |-> v]
  IN  CASE text = "null" -> ok(JNull)
        [] text = "42" -> ok(JNumber)
        [] text = "\"1.6.0\"" -> ok(JString(<<"1",".","6",".","0">>))
        [] text = "[]" -> ok(JArray)
        [] text = "{}" -> ok(JObject(<< >>))
        [] text = "{\"config\":null}" -> ok(JObject("config" :> JNull))
        [] text = "{\"config\":\"1.6.0\"}" -> ok(JObject("config" :> JString(<<"1",".","6",".","0">>)))
        [] text = "{\"config\":{}}" -> ok(JObject("config" :> JObject(<< >>)))
        [] text = "{\"config\":{\"bufVersion\":7}}" ->
             ok(JObject("config" :> JObject("bufVersion" :> JNumber)))
        [] text = "{\"config\":{\"bufVersion\":\"1.6.0\"}}" ->
             ok(JObject("config" :> JObject("bufVersion" :> JString(<<"1",".","6",".","0">>))))
        [] text = "{\"config\":{\"bufVersion\":\"1.7.0\"}}" ->
             ok(JObject("config" :> JObject("bufVersion" :> JString(<<"1",".","7",".","0">>))))
        [] text = "{\"config\":{\"bufVersion\":\"\"}}" ->
             ok(JObject("config" :> JObject("bufVersion" :> JString(<< >>))))
        [] OTHER -> [ok |-> FALSE, value |-> JNull]

\* typeof of a value that may be undefined
typeof(v) ==
  IF ~IsDefined(v) THEN "undefined"
  ELSE CASE Val(v).type \in {"null", "array", "object"} -> "object"
         [] Val(v).type = "number" -> "number"
         [] Val(v).type = "string" -> "string"

\* Object.prototype.hasOwnProperty.call(v, key)
hasOwnProperty(v, key) == key \in DOMAIN v.props

\* v.key of a value that is not null: the property, or undefined
Get(v, key) == IF hasOwnProperty(v, key) THEN Some(v.props[key]) ELSE Undefined

\* the outcomes of a call: a returned value, or an error thrown
Return(value) == [tag |-> "return", value |-> value]
Throws(name) == [tag |-> "throw", value |-> Some(name)]

\* tryReadBufVersion: the config.bufVersion string of the manifest at
\* pkgPath, undefined when there is none; reading pkg.config of a manifest
\* that parses to null throws a TypeError outside the try block
tryReadBufVersion(f, pkgPath) ==
  IF ~existsSync(f, pkgPath) THEN Return(Undefined)
  ELSE IF isDirectory(f, pkgPath) THEN Throws(<<"E","I","S","D","I","R">>)
  ELSE LET parsed == JSONparse(f[pkgPath])
           pkg == parsed.value
       IN  IF ~parsed.ok THEN Return(Undefined)
           ELSE IF typeof(Some(pkg)) # "object" THEN Return(Undefined)
           ELSE IF pkg.type = "null" THEN Throws(<<"T","y","p","e","E","r","r","o","r">>)
           ELSE LET config == Get(pkg, "config")
                IN  IF typeof(config) = "object" /\ Val(config).type # "null"
                      THEN IF /\ hasOwnProperty(Val(config), "bufVersion")
                              /\ typeof(Get(Val(config), "bufVersion")) = "string"
                             THEN Return(Some(Val(Get(Val(config), "bufVersion")).str))
                           ELSE Return(Undefined)
                    ELSE Return(Undefined)

\* findBufVersionConfig: the first version found in the manifests of dir and
\* of its ancestors, up to the root of the filesystem
RECURSIVE findBufVersionConfig(_, _)
findBufVersionConfig(f, dir) ==
  LET version == tryReadBufVersion(f, join(dir, <<"p","a","c","k","a","g","e",".","j","s","o","n">>))
      parent == dirname(dir)
  IN  IF version.tag = "throw" THEN version
      ELSE IF version.value # Undefined THEN version
      ELSE IF parent = dir THEN version
      ELSE findBufVersionConfig(f, parent)

\* ------------------------------------------------------------------------
\* State
\* ------------------------------------------------------------------------

VARIABLES
  host,     \* [platform, arch]: os.platform() and os.arch()
  fs,       \* the filesystem
  fs0,      \* the filesystem before the first invocation (never changes)
  active,   \* the callers that invoke ensureInstalled
  inv,      \* per caller: the state of its ensureInstalled invocation
  downloaded, \* the arguments of the ended invocations whose download succeeded
  calls,    \* the number of invocations started
  envPath,  \* process.env.PATH
  probe,    \* "todo" until findBufInPath has run, then "done"
  command,  \* what findBufInPath returned
  listCall,   \* what listInstalled returned, once it has been called
  nameCall,   \* [params, out]: a call of makeReleaseName and what it returned
  configCall, \* [cwd, out]: a call of findBufVersionConfig and its outcome
  main        \* the state of main() of buf.js

vars == <<host, fs, fs0, active, inv, downloaded, calls, envPath, probe, command,
          listCall, nameCall, configCall, main>>
probeVars == <<envPath, probe, command>>
pureVars == <<listCall, nameCall, configCall, main>>

\* main() is not running
NoMain ==
  [ pc |-> "off",
    argv1 |-> << >>,                 \* process.argv[1]
    configuredVersion |-> Undefined, \* what findBufVersionConfig returned
    probed |-> FALSE,                \* findBufInPath has been called
    fromPath |-> Undefined,          \* and what it returned
    command |-> Undefined ]          \* the executable to spawn

\* none of the functions checked on their own has been called, main() is
\* not running
NoPureCalls ==
  /\ listCall = Undefined
  /\ nameCall = [params |-> [platform |-> << >>, arch |-> << >>, version |-> << >>],
                 out |-> Undefined]
  /\ configCall = [cwd |-> sep, out |-> Undefined]
  /\ main = NoMain

\* the number of ensureInstalled invocations one run of the model starts
MaxCalls == 2

Procs == {"p1", "p2"}

\* the bytes the server sends to caller p
Bytes(p) == "bytes-" \o p

\* what the outside world can be
Hosts == { [platform |-> <<"d","a","r","w","i","n">>, arch |-> <<"a","r","m","6","4">>],
           [platform |-> <<"w","i","n","3","2">>, arch |-> <<"x","6","4">>] }

\* the version argument of ensureInstalled: undefined, 'latest', or an
\* explicit string, which nothing validates
Versions == { Undefined, Some(<<"l","a","t","e","s","t">>), Some(<<"1",".","6",".","0">>), Some(<<"1",".","6",".","0","/","r","c">>),
              Some(<<".",".">>), Some(<< >>) }

\* status codes a server answers with
Statuses == {200, 204, 302, 404}

\* the Location header of an answer to the latest-release request
LatestLocations == { Undefined, Some(<< >>), Some(<<"h","t","t","p",":","/","/","x",".","i","o">>),
                     Some(<<"h","t","t","p","s",":","/","/","g","i","t","h","u","b",".","c","o","m","/","v","e","n","d","o","r","/","b","u","f","/","r","e","l","e","a","s","e","s","/","t","a","g","/","v","1",".","6",".","0">>),
                     Some(<<"h","t","t","p","s",":","/","/","g","i","t","h","u","b",".","c","o","m","/","b","u","f","b","u","i","l","d","/","b","u","f","/","r","e","l","e","a","s","e","s","/","t","a","g","/","v">>) }

\* the Location header of an answer to a download request
DownloadLocations == { Undefined, Some(<<"/","a","s","s","e","t">>), Some(<<"h","t","t","p","s",":","/","/","c","d","n",".","i","o","/","b","u","f">>) }

\* ------------------------------------------------------------------------
\* src/buf.js: ensureInstalled
\* ------------------------------------------------------------------------

latestUrl == <<"h","t","t","p","s",":","/","/","g","i","t","h","u","b",".","c","o","m","/","b","u","f","b","u","i","l","d","/","b","u","f","/","r","e","l","e","a","s","e","s","/","l","a","t","e","s","t">>
downloadUrl(releaseName) == <<"h","t","t","p","s",":","/","/","g","i","t","h","u","b",".","c","o","m","/","b","u","f","b","u","i","l","d","/","b","u","f","/","r","e","l","e","a","s","e","s","/","d","o","w","n","l","o","a","d","/","v">> \o releaseName

\* line 64: version === 'latest' || version === undefined
needsLatest(version) == version = Some(<<"l","a","t","e","s","t">>) \/ version = Undefined

\* latestVersion cutting at the first '/v' instead of the last:
\* latestLocation.substring(latestLocation.indexOf('/v') + 2)
latestVersionAfterFirst(latestLocation) ==
  LET i == IndexOf(latestLocation, <<"/","v">>)
  IN  IF i = 0 THEN Slice(latestLocation, 1)
      ELSE SubSeq(latestLocation, i + 2, Len(latestLocation))

\* line 71: latestLocation.split('/v').pop()
latestVersion(latestLocation) == Pop(Split(latestLocation, <<"/","v">>))

\* lines 76-80: the release name for the current platform
releaseNameFor(version) ==
  makeReleaseName([platform |-> host.platform, arch |-> host.arch, version |-> version])

\* findInstalled comparing the version folder only: i.version === version
findInstalledByVersion(f, releaseName) ==
  LET hits == { i \in listInstalled(f, standardInstallDirectory) :
                  i.version = Split(releaseName, sep)[1] }
  IN  IF hits = {} THEN Undefined ELSE Some(CHOOSE i \in hits : TRUE)

\* findInstalled comparing the wrong field: i.version === releaseName
findInstalledByField(f, releaseName) ==
  LET hits == { i \in listInstalled(f, standardInstallDirectory) : i.version = releaseName }
  IN  IF hits = {} THEN Undefined ELSE Some(CHOOSE i \in hits : TRUE)

\* lines 83 and 102: listInstalled().find(i => i.name === releaseName)
findInstalled(f, releaseName) ==
  LET hits == { i \in listInstalled(f, standardInstallDirectory) : i.name = releaseName }
  IN  IF hits = {} THEN Undefined ELSE Some(CHOOSE i \in hits : TRUE)


\* a directory tree given as a set of absolute paths of files; every
\* ancestor is a directory
RECURSIVE Ancestors(_)
Ancestors(p) == IF p = sep THEN {sep} ELSE {p} \cup Ancestors(dirname(p))

Tree(dirs, files) ==
  LET all == UNION { Ancestors(d) : d \in dirs \cup files }
  IN  [q \in all |-> IF q \in files THEN "bytes-0" ELSE DIR]

\* the cache before the first invocation: absent; holding 1.6.0 for this
\* host and for another one, beside entries listInstalled skips; or with a
\* file where the version folder of 1.6.0 would be
InitialFs(h) ==
  LET root == standardInstallDirectory
      mine == join(root, makeReleaseName([platform |-> h.platform, arch |-> h.arch, version |-> <<"1",".","6",".","0">>]))
      other == join(root, <<"1",".","6",".","0","/","b","u","f","-","P","l","a","n","9","-","m","i","p","s">>)
  IN  { Tree({__dirname}, {}),
        Tree({root}, {}),
        Tree({__dirname}, {mine, other, join(root, <<"1",".","6",".","0","/","L","I","C","E","N","S","E">>), join(root, <<"R","E","A","D","M","E">>)}),
        Tree({__dirname}, {join(root, <<"1",".","6",".","0">>)}) }

\* a caller that has not invoked ensureInstalled
Idle ==
  [ pc |-> "idle",
    arg |-> Undefined,           \* the argument version
    version |-> << >>,           \* the local version once it is known
    latestStatus |-> 0,          \* the status of the answer to the latest-release request
    latestHeader |-> Undefined,  \* and its Location header
    latestLocation |-> Undefined,
    releaseName |-> << >>,
    url0 |-> << >>,              \* the url httpDownload was called with
    url |-> << >>,               \* the url of the request in flight
    redirects |-> << >>,         \* the chain of the latest httpGet call
    statusCode |-> 0,            \* the status of the last answer to httpGet
    fetch |-> "none",            \* httpGet's promise: none, pending, resolved, rejected, threw
    binaryContent |-> "",
    releasePath |-> << >>,
    releaseDir |-> << >>,
    i |-> 0,                     \* mkDirRecursive's loop variable
    result |-> Undefined,        \* the entry returned
    error |-> [kind |-> "none", cause |-> NoCause],
    fsAtCall |-> << >>,          \* the filesystem when the invocation began
    again |-> FALSE,             \* an earlier invocation with this argument downloaded
    nLatest |-> 0,               \* GETs issued by httpGetRedirect
    nGet |-> 0,                  \* GETs issued by httpGet
    pending |-> 0,               \* requests issued and not yet answered
    nDownload |-> 0,             \* calls of httpDownload
    nMkdir |-> 0,                \* directories created
    nWrite |-> 0 ]               \* files written

Ended(s) == s.pc \in {"returned", "failed", "uncaught"}

Step(p, s) == inv' = [inv EXCEPT ![p] = s] /\ UNCHANGED downloaded
Finish(p, s) ==
  /\ inv' = [inv EXCEPT ![p] = s]
  /\ downloaded' = IF s.binaryContent # "" THEN downloaded \cup {s.arg} ELSE downloaded

\* ensureInstalled throws: its promise rejects with Error(kind ...: cause)
Throw(s, kind, cause) == [s EXCEPT !.pc = "failed", !.error = [kind |-> kind, cause |-> cause]]

\* an exception leaves a callback of the http client: nothing catches it, the
\* promise of the fetch never settles and the process dies with it
Uncaught(s, cause) ==
  [s EXCEPT !.pc = "uncaught", !.fetch = "threw", !.error = [kind |-> "AssertionError", cause |-> cause]]

Init ==
  /\ host \in Hosts
  /\ fs \in InitialFs(host)
  /\ fs0 = fs
  /\ active = {"p1"}
  /\ inv = [p \in Procs |-> Idle]
  /\ downloaded = {}
  /\ calls = 0
  /\ envPath = Undefined /\ probe = "done" /\ command = Undefined
  /\ NoPureCalls

\* ------------------------------------------------------------------------
\* ensureInstalled, one action per run of code between two awaits
\* ------------------------------------------------------------------------

\* lines 62-67: the invocation after the call; for 'latest' or undefined the
\* latest-release request is issued, otherwise the version is the argument
Called(v) ==
  LET s == [Idle EXCEPT !.arg = v, !.fsAtCall = fs, !.again = v \in downloaded]
  IN  IF needsLatest(v)
        THEN [s EXCEPT !.pc = "awaitLatest", !.url = latestUrl, !.nLatest = 1,
                       !.pending = 1]
      ELSE [s EXCEPT !.pc = "versionKnown", !.version = Val(v)]

\* a caller invokes ensureInstalled(v)
Call(p, v) ==
  /\ p \in active
  /\ inv[p].pc = "idle" \/ Ended(inv[p])
  /\ calls < MaxCalls
  /\ calls' = calls + 1
  /\ Step(p, Called(v))
  /\ UNCHANGED <<host, fs, fs0, active, probeVars, pureVars>>

\* util.js 102-112 and buf.js 68-72: the answer to the latest-release request
LatestResponse(p, statusCode, location) ==
  /\ inv[p].pc = "awaitLatest"
  /\ LET s == inv[p]
         r == httpGetRedirectCallback(s.url, statusCode, location)
         s1 == [s EXCEPT !.latestStatus = statusCode, !.latestHeader = location,
                         !.pending = @ - 1]
     IN  CASE r.tag = "resolve" ->
                Step(p, [s1 EXCEPT !.pc = "versionKnown", !.latestLocation = Some(r.value),
                                   !.version = latestVersion(r.value)])
           [] r.tag = "reject" -> Finish(p, Throw(s1, "latest", r.error))
           [] r.tag = "throw" -> Finish(p, Uncaught(s1, r.error))
  /\ UNCHANGED <<host, fs, fs0, active, calls, probeVars, pureVars>>

\* util.js 113 and buf.js 68-70: the latest-release request fails
LatestError(p) ==
  /\ inv[p].pc = "awaitLatest"
  /\ Finish(p, Throw([inv[p] EXCEPT !.pending = @ - 1], "latest",
                     Cause("transport", 0, inv[p].url)))
  /\ UNCHANGED <<host, fs, fs0, active, calls, probeVars, pureVars>>

\* CheckInstalled creating the install directory before the download
CheckInstalledMkdirFirst(p) ==
  /\ inv[p].pc = "versionKnown"
  /\ LET s == inv[p]
         releaseName == releaseNameFor(s.version)
         alreadyInstalled == findInstalled(fs, releaseName)
         s1 == [s EXCEPT !.releaseName = releaseName]
         url == downloadUrl(releaseName)
         a == httpGetAsserts(url, << >>)
     IN  IF IsDefined(alreadyInstalled)
           THEN Finish(p, [s1 EXCEPT !.pc = "returned", !.result = alreadyInstalled])
                /\ UNCHANGED fs
         ELSE /\ fs' = IF existsSync(fs, standardInstallDirectory) THEN fs
                       ELSE (standardInstallDirectory :> DIR) @@ fs
              /\ IF a # "ok"
                   THEN Finish(p, Throw(s1, "download", Cause(a, 0, url)))
                 ELSE Step(p, [s1 EXCEPT !.pc = "awaitDownload", !.url0 = url, !.url = url,
                                         !.redirects = << >>, !.fetch = "pending",
                                         !.nDownload = @ + 1, !.nGet = @ + 1,
                                         !.pending = @ + 1])
  /\ UNCHANGED <<host, fs0, active, calls, probeVars, pureVars>>

\* lines 74-91: the release name, the cache lookup and, on a miss, the
\* download request
CheckInstalled(p) ==
  /\ inv[p].pc = "versionKnown"
  /\ LET s == inv[p]
         releaseName == releaseNameFor(s.version)
         alreadyInstalled == findInstalled(fs, releaseName)
         s1 == [s EXCEPT !.releaseName = releaseName]
         url == downloadUrl(releaseName)
         a == httpGetAsserts(url, << >>)
     IN  IF IsDefined(alreadyInstalled)
           THEN Finish(p, [s1 EXCEPT !.pc = "returned", !.result = alreadyInstalled])
         ELSE IF a # "ok"
           THEN Finish(p, Throw(s1, "download", Cause(a, 0, url)))
         ELSE Step(p, [s1 EXCEPT !.pc = "awaitDownload", !.url0 = url, !.url = url,
                                 !.redirects = << >>, !.fetch = "pending",
                                 !.nDownload = @ + 1, !.nGet = @ + 1, !.pending = @ + 1])
  /\ UNCHANGED <<host, fs, fs0, active, calls, probeVars, pureVars>>

\* util.js 130-141 and buf.js 92-94: an answer to a request of httpGet
DownloadResponse(p, statusCode, location) ==
  /\ inv[p].pc = "awaitDownload"
  /\ LET s == inv[p]
         r == httpGetCallback(s.url, s.redirects, statusCode, location)
         s1 == [s EXCEPT !.statusCode = statusCode, !.url = r.url, !.redirects = r.redirects,
                         !.pending = @ - 1]
     IN  CASE r.tag = "follow" -> Step(p, [s1 EXCEPT !.nGet = @ + 1, !.pending = @ + 1])
           [] r.tag = "resolve" -> Step(p, [s1 EXCEPT !.pc = "awaitBody", !.fetch = "resolved"])
           [] r.tag = "reject" ->
                Finish(p, Throw([s1 EXCEPT !.fetch = "rejected"], "download", r.error))
           [] r.tag = "throw" -> Finish(p, Uncaught(s1, r.error))
  /\ UNCHANGED <<host, fs, fs0, active, calls, probeVars, pureVars>>

\* a catch block around the download that goes on without the artifact
DownloadErrorSwallowed(p) ==
  /\ inv[p].pc = "awaitDownload"
  /\ Step(p, [inv[p] EXCEPT !.fetch = "rejected", !.pending = @ - 1, !.pc = "awaitBody"])
  /\ UNCHANGED <<host, fs, fs0, active, calls, probeVars, pureVars>>

\* util.js 142 and buf.js 92-94: a request of httpGet fails
DownloadError(p) ==
  /\ inv[p].pc = "awaitDownload"
  /\ Finish(p, Throw([inv[p] EXCEPT !.fetch = "rejected", !.pending = @ - 1], "download",
                     Cause("transport", 0, inv[p].url)))
  /\ UNCHANGED <<host, fs, fs0, active, calls, probeVars, pureVars>>

\* util.js 84-86 and buf.js 96-98: the body has ended; the release path and
\* its directory are computed and mkDirRecursive's loop begins
BodyEnd(p) ==
  /\ inv[p].pc = "awaitBody"
  /\ LET s == inv[p]
         releasePath == join(standardInstallDirectory, s.releaseName)
     IN  Step(p, [s EXCEPT !.pc = "mkdir", !.binaryContent = Bytes(p),
                           !.releasePath = releasePath, !.releaseDir = dirname(releasePath),
                           !.i = 2])
  /\ UNCHANGED <<host, fs, fs0, active, calls, probeVars, pureVars>>

\* mkDirRecursive's loop moves on to the next round, or ends
NextRound(s) ==
  [s EXCEPT !.i = @ + 1,
            !.pc = IF s.i + 1 <= Len(mkDirParts(s.releaseDir)) THEN "mkdir" ELSE "write"]

\* util.js 21-27: one round of the loop up to the decision to create
MkDirCheck(p) ==
  /\ inv[p].pc = "mkdir"
  /\ LET s == inv[p]
         q == mkDirPath(s.releaseDir, s.i)
     IN  IF existsSync(fs, q)
           THEN IF ~isDirectory(fs, q)
                  THEN Finish(p, Throw(s, "mkdir", NoCause))
                ELSE Step(p, NextRound(s))
         ELSE Step(p, [s EXCEPT !.pc = "mkdirSync"])
  /\ UNCHANGED <<host, fs, fs0, active, calls, probeVars, pureVars>>

\* util.js 28: fs.mkdirSync(p), which fails when p exists by now
MkDirSync(p) ==
  /\ inv[p].pc = "mkdirSync"
  /\ LET s == inv[p]
         q == mkDirPath(s.releaseDir, s.i)
     IN  IF existsSync(fs, q) \/ ~isDirectory(fs, dirname(q))
           THEN Finish(p, Throw(s, "fs", NoCause)) /\ UNCHANGED fs
         ELSE /\ fs' = (q :> DIR) @@ fs
              /\ Step(p, [NextRound(s) EXCEPT !.nMkdir = @ + 1])
  /\ UNCHANGED <<host, fs0, active, calls, probeVars, pureVars>>

\* line 99: fs.writeFileSync(releasePath, binaryContent, { mode: 0o755 })
WriteFile(p) ==
  /\ inv[p].pc = "write"
  /\ LET s == inv[p]
     IN  IF isDirectory(fs, s.releasePath) \/ ~isDirectory(fs, dirname(s.releasePath))
           THEN Finish(p, Throw(s, "fs", NoCause)) /\ UNCHANGED fs
         ELSE /\ fs' = (s.releasePath :> s.binaryContent) @@ fs
              /\ Step(p, [s EXCEPT !.pc = "verify", !.nWrite = @ + 1])
  /\ UNCHANGED <<host, fs0, active, calls, probeVars, pureVars>>

\* lines 101-109: the sanity check and the return
Verify(p) ==
  /\ inv[p].pc = "verify"
  /\ LET s == inv[p]
         installed == findInstalled(fs, s.releaseName)
     IN  IF ~IsDefined(installed)
           THEN Finish(p, Throw(s, "install", NoCause))
         ELSE Finish(p, [s EXCEPT !.pc = "returned", !.result = installed])
  /\ UNCHANGED <<host, fs, fs0, active, calls, probeVars, pureVars>>

Next ==
  \E p \in Procs :
    \/ \E v \in Versions : Call(p, v)
    \/ \E statusCode \in Statuses, location \in LatestLocations :
         LatestResponse(p, statusCode, location)
    \/ LatestError(p)
    \/ CheckInstalled(p)
    \/ \E statusCode \in Statuses, location \in DownloadLocations :
         DownloadResponse(p, statusCode, location)
    \/ DownloadError(p)
    \/ BodyEnd(p)
    \/ MkDirCheck(p)
    \/ MkDirSync(p)
    \/ WriteFile(p)
    \/ Verify(p)

Spec == Init /\ [][Next]_vars


\* ------------------------------------------------------------------------
\* Properties of ensureInstalled and of the fetches it makes
\* ------------------------------------------------------------------------

IsExplicit(arg) == ~needsLatest(arg)

\* the release name is listed in the cache f
Listed(f, releaseName) ==
  \E e \in listInstalled(f, standardInstallDirectory) : e.name = releaseName

\* C1: an invocation with an explicit version whose release name the cache
\* listed when the invocation began returns that listed entry, and issues no
\* HTTP request, creates no directory and writes no file.
C1_CacheHitNoIO ==
  \A p \in Procs :
    LET s == inv[p]
        name == releaseNameFor(Val(s.arg))
    IN  (s.pc # "idle" /\ IsExplicit(s.arg) /\ Listed(s.fsAtCall, name)) =>
          /\ s.nLatest = 0 /\ s.nGet = 0 /\ s.nDownload = 0
          /\ s.nMkdir = 0 /\ s.nWrite = 0
          /\ s.pc \in {"versionKnown", "returned"}
          /\ s.pc = "returned" =>
               /\ IsDefined(s.result)
               /\ Val(s.result).name = name
               /\ Val(s.result) \in listInstalled(s.fsAtCall, standardInstallDirectory)

C1_Witness ==
  \E p \in Procs :
    /\ inv[p].pc = "returned"
    /\ IsExplicit(inv[p].arg)
    /\ Listed(inv[p].fsAtCall, releaseNameFor(Val(inv[p].arg)))
    /\ inv[p].nGet = 0

\* the cache was empty (or absent) before the first invocation
ColdStart == readdirSync(fs0, standardInstallDirectory) = {}

\* C2: from an empty cache, the first invocation with an explicit version
\* whose download succeeds downloads once and writes one file, and every later
\* invocation with the same version downloads nothing, writes nothing and
\* returns the entry of that name.
C2_ColdThenWarm ==
  \A p \in Procs :
    LET s == inv[p]
    IN  (ColdStart /\ s.pc # "idle" /\ IsExplicit(s.arg)) =>
          /\ (~s.again /\ Ended(s) /\ s.binaryContent # "") =>
               (s.nDownload = 1 /\ s.nWrite = 1)
          /\ s.again =>
               /\ s.nDownload = 0 /\ s.nWrite = 0
               /\ Ended(s) => /\ s.pc = "returned"
                              /\ Val(s.result).name = releaseNameFor(Val(s.arg))

\* the same for the versions that are one path segment: a name other than
\* "." and ".." without a separator
IsOneSegment(version) ==
  /\ Len(version) > 0
  /\ IndexOf(version, sep) = 0
  /\ version \notin {<<".">>, <<".",".">>}

C2_ColdThenWarmOneSegment ==
  \A p \in Procs :
    LET s == inv[p]
    IN  (ColdStart /\ s.pc # "idle" /\ IsExplicit(s.arg) /\ IsOneSegment(Val(s.arg))) =>
          /\ (~s.again /\ Ended(s) /\ s.binaryContent # "") =>
               (s.nDownload = 1 /\ s.nWrite = 1)
          /\ s.again =>
               /\ s.nDownload = 0 /\ s.nWrite = 0
               /\ Ended(s) => /\ s.pc = "returned"
                              /\ Val(s.result).name = releaseNameFor(Val(s.arg))

\* C3: a fetch of httpGet that starts with an empty chain resolves exactly
\* when a request is answered 200, which happens after 0 to 3 redirects; a
\* fourth redirect fails the assertion on the chain, and only a fourth does;
\* a fetch issues at most 4 GET requests.
C3_RedirectBound ==
  \A p \in Procs :
    LET s == inv[p]
    IN  /\ s.nGet <= 4
        /\ s.fetch # "none" =>
             /\ s.fetch = "resolved" <=> s.statusCode = 200
             /\ s.fetch = "resolved" =>
                  (Len(s.redirects) <= 3 /\ s.nGet = Len(s.redirects) + 1)
             /\ s.fetch = "pending" => s.nGet = Len(s.redirects) + 1
             /\ (Len(s.redirects) > 3 /\ isUrl(s.url)) =>
                  (s.fetch = "threw" /\ s.error.cause.kind = "assertRedirects")
             /\ s.error.cause.kind = "assertRedirects" =>
                  (Len(s.redirects) = 4 /\ s.nGet = 4 /\ s.fetch = "threw")

C3_Witness ==
  \E p \in Procs :
    inv[p].fetch = "resolved" /\ Len(inv[p].redirects) = 3 /\ inv[p].nGet = 4

\* C4: an invocation that returns, returns an entry whose name is the release
\* name of the host and the resolved version, which the cache lists and whose
\* path exists inside the cache root; an invocation that ends otherwise has
\* no result and carries an error.
C4_ReturnsListedEntry ==
  \A p \in Procs :
    LET s == inv[p]
    IN  /\ s.pc = "returned" =>
             /\ IsDefined(s.result)
             /\ Val(s.result).name = releaseNameFor(s.version)
             /\ Val(s.result) \in listInstalled(fs, standardInstallDirectory)
             /\ existsSync(fs, Val(s.result).bufPath)
             /\ StartsWith(Val(s.result).bufPath, standardInstallDirectory \o sep)
        /\ (Ended(s) /\ s.pc # "returned") =>
             (s.result = Undefined /\ s.error.kind # "none")
        /\ IsDefined(s.result) => s.pc = "returned"

C4_Witness ==
  \E p \in Procs :
    inv[p].pc = "returned" /\ inv[p].nWrite = 1 /\ inv[p].nDownload = 1

\* C5: every network failure inside ensureInstalled reaches the caller as a
\* rejection with a wrapped error: 'failed to retrieve latest buf version'
\* for the latest lookup, 'failed to download' for the download (a final
\* status that is no success, a transport error, too many redirects, a
\* redirect without Location).
C5_NetworkFailuresWrapped ==
  \A p \in Procs :
    LET s == inv[p]
    IN  s.error.cause.kind \in {"http", "noRedirect", "transport",
                                "assertRedirects", "assertLocation"} =>
          /\ s.pc = "failed"
          /\ s.error.kind = (IF s.nDownload = 0 THEN "latest" ELSE "download")

\* C6: after the write step has stored the artifact without an error, the
\* cache lists an entry named by the release name that was written.
C6_WrittenIsListed ==
  \A p \in Procs :
    inv[p].pc = "verify" => Listed(fs, inv[p].releaseName)

\* the suffix of s after the last occurrence of sub, which occurs in s
AfterLast(s, sub) ==
  LET hits == { i \in 1..(Len(s) - Len(sub) + 1) : SubSeq(s, i, i + Len(sub) - 1) = sub }
      last == CHOOSE i \in hits : \A j \in hits : j <= i
  IN  SubSeq(s, last + Len(sub), Len(s))

\* C7: an explicit version other than 'latest' is used unchanged and no
\* latest-release request is issued for it; for undefined or 'latest' exactly
\* one request goes to the latest-release url and the version is what follows
\* the last '/v' of the Location it is answered with (all of a Location that
\* holds no '/v').
C7_VersionResolution ==
  \A p \in Procs :
    LET s == inv[p]
    IN  s.pc # "idle" =>
          /\ IsExplicit(s.arg) =>
               (s.nLatest = 0 /\ s.version = Val(s.arg) /\ s.latestLocation = Undefined)
          /\ needsLatest(s.arg) =>
               /\ s.nLatest = 1
               /\ s.pc = "awaitLatest" => s.url = latestUrl
               /\ s.pc \notin {"awaitLatest", "failed", "uncaught"} => IsDefined(s.latestLocation)
               /\ IsDefined(s.latestLocation) =>
                    s.version = IF IndexOf(Val(s.latestLocation), <<"/","v">>) # 0
                                  THEN AfterLast(Val(s.latestLocation), <<"/","v">>)
                                ELSE Val(s.latestLocation)

C7_Witness ==
  \E p \in Procs :
    /\ needsLatest(inv[p].arg)
    /\ inv[p].latestLocation = Some(<<"h","t","t","p","s",":","/","/","g","i","t","h","u","b",".","c","o","m","/","v","e","n","d","o","r","/","b","u","f","/","r","e","l","e","a","s","e","s","/","t","a","g","/","v","1",".","6",".","0">>)
    /\ inv[p].version = <<"1",".","6",".","0">>
    /\ inv[p].pc = "returned"

\* C8: httpGetRedirect issues one GET and follows nothing: answered with a
\* 3xx and a non-empty Location it resolves to that Location, answered 200 it
\* rejects with 'Did not get expected redirect', answered any other status
\* outside 3xx it rejects with the HTTP status error.
C8_RedirectTargetOnly ==
  \A p \in Procs :
    LET s == inv[p]
        st == s.latestStatus
        is3xx == st >= 300 /\ st < 400
    IN  /\ s.nLatest <= 1
        /\ st # 0 =>
             /\ s.nLatest = 1
             /\ (is3xx /\ IsDefined(s.latestHeader) /\ Len(Val(s.latestHeader)) > 0) =>
                  /\ s.latestLocation = s.latestHeader
                  /\ s.error.kind # "latest"
                  /\ s.nGet > 0 => s.url0 = downloadUrl(s.releaseName)
             /\ st = 200 =>
                  /\ s.pc = "failed" /\ s.error.kind = "latest"
                  /\ s.error.cause = Cause("noRedirect", st, latestUrl)
             /\ (~is3xx /\ st # 200) =>
                  /\ s.pc = "failed" /\ s.error.kind = "latest"
                  /\ s.error.cause = Cause("http", st, latestUrl)

C8_Witness ==
  \E p \in Procs :
    /\ inv[p].latestStatus = 302
    /\ inv[p].pc = "versionKnown"
    /\ inv[p].latestLocation = inv[p].latestHeader

\* C9 as stated: a fetch of httpGet that ends on a response that is neither
\* a redirect nor a 2xx fails with the HTTP status error carrying the status
\* and the url the fetch was started with; a 2xx response does not.
C9_StatusErrorOriginalUrl ==
  \A p \in Procs :
    LET s == inv[p]
        st == s.statusCode
    IN  (st # 0 /\ ~(st >= 300 /\ st < 400)) =>
          IF st >= 200 /\ st < 300
            THEN s.error.cause.kind # "http"
          ELSE /\ s.pc = "failed"
               /\ s.error.cause = Cause("http", st, s.url0)

\* C9, amended: a fetch of httpGet that ends on a response whose status is
\* neither 3xx nor 200 fails with the HTTP status error carrying the status
\* and the url of the request that was answered: the url the fetch was
\* started with when no redirect was followed, the Location of the last
\* redirect otherwise.  Only a 200 response does not produce the error.
C9_StatusErrorRequestUrl ==
  \A p \in Procs :
    LET s == inv[p]
        st == s.statusCode
        asked == IF s.redirects = << >> THEN s.url0 ELSE s.redirects[Len(s.redirects)]
    IN  (st # 0 /\ ~(st >= 300 /\ st < 400)) =>
          IF st = 200
            THEN s.error.cause.kind # "http" /\ s.fetch = "resolved"
          ELSE /\ s.pc = "failed" /\ s.fetch = "rejected"
               /\ s.error.kind = "download"
               /\ s.error.cause = Cause("http", st, asked)

C9_Witness ==
  \E p \in Procs :
    /\ inv[p].error.cause.kind = "http"
    /\ inv[p].statusCode = 404
    /\ Len(inv[p].redirects) = 2
    /\ inv[p].error.cause.url # inv[p].url0


\* ------------------------------------------------------------------------
\* the order of the steps of one invocation
\* ------------------------------------------------------------------------

\* the step an invocation is at: 1 version resolution, 2 first cache read,
\* 3 download, 4 directory creation and file write, 5 second cache read,
\* 6 ended
Stage(s) ==
  CASE s.pc = "idle" -> 0
    [] s.pc = "awaitLatest" -> 1
    [] s.pc = "versionKnown" -> 2
    [] s.pc \in {"awaitDownload", "awaitBody"} -> 3
    [] s.pc \in {"mkdir", "mkdirSync", "write"} -> 4
    [] s.pc = "verify" -> 5
    [] s.pc \in {"returned", "failed", "uncaught"} -> 6

\* what has happened by each step, and no more than that
StepsDone(s) ==
  /\ s.pending <= 1
  /\ s.nLatest <= 1 /\ s.nDownload <= 1 /\ s.nWrite <= 1
  /\ Stage(s) \in 1..2 => s.nDownload = 0 /\ s.nGet = 0
  /\ Stage(s) \in 1..3 => s.nMkdir = 0 /\ s.nWrite = 0
  /\ Stage(s) = 4 => s.nWrite = 0
  /\ Stage(s) = 5 => s.nWrite = 1
  /\ s.nMkdir > 0 \/ s.nWrite > 0 =>
       s.nDownload = 1 /\ s.fetch = "resolved" /\ s.binaryContent # "" /\ s.pending = 0
  /\ s.nDownload = 1 => s.releaseName = releaseNameFor(s.version)
  /\ s.pc = "uncaught" \/ (s.pc = "failed" /\ s.error.kind \in {"latest", "download"})
       => s.nMkdir = 0 /\ s.nWrite = 0

\* an invocation moves forward through the steps, or a new one begins
MovesForward(s, t) ==
  \/ Stage(t) > Stage(s)
  \/ Stage(t) = Stage(s) /\ Stage(s) \in {3, 4}
  \/ Stage(s) \in {0, 6} /\ Stage(t) \in {1, 2} /\ t.nDownload = 0 /\ t.nWrite = 0

\* C14: within one invocation the steps occur in the order version
\* resolution, cache read, download, directory creation and file write, cache
\* read; at most one request is outstanding at any time, at most one download
\* is started, and nothing is created or written before the download has
\* completed successfully.
C14_StepOrder ==
  /\ [](\A p \in Procs : StepsDone(inv[p]))
  /\ [][\A p \in Procs : inv'[p] # inv[p] => MovesForward(inv[p], inv'[p])]_vars

C14_Witness ==
  \E p \in Procs :
    /\ inv[p].pc = "returned"
    /\ inv[p].nLatest = 1 /\ inv[p].nGet = 2 /\ inv[p].nMkdir = 2 /\ inv[p].nWrite = 1

\* ------------------------------------------------------------------------
\* what an invocation changes in the filesystem
\* ------------------------------------------------------------------------

\* the invocation failed while resolving the version or downloading
FailedBeforeWrite(s) ==
  \/ s.pc = "uncaught"
  \/ s.pc = "failed" /\ s.error.kind \in {"latest", "download"}

\* the names of the cache entries
EntryNames(f) == { e.name : e \in listInstalled(f, standardInstallDirectory) }

\* f and g hold the same, but for what g adds to or overwrites in f
Keeps(f, g) ==
  /\ DOMAIN f \subseteq DOMAIN g
  /\ \A q \in DOMAIN f : f[q] = DIR => g[q] = DIR
  /\ EntryNames(f) \subseteq EntryNames(g)

\* C17: an invocation that fails during version resolution or download
\* leaves the filesystem as it was, creating no directory, the cache root
\* included, and writing no file; directories are created and the file is
\* written only in the write step after a successful download; and no step
\* deletes a cache entry.
C17_FailureLeavesFs ==
  /\ [](\A p \in active :
          FailedBeforeWrite(inv[p]) \/ Stage(inv[p]) \in 1..3 => fs = inv[p].fsAtCall)
  /\ [][fs' # fs =>
          /\ \E p \in Procs :
               /\ inv[p].pc \in {"mkdirSync", "write"}
               /\ inv[p].fetch = "resolved" /\ inv[p].binaryContent # ""
          /\ Keeps(fs, fs')]_vars

C17_Witness ==
  \E p \in active :
    /\ inv[p].pc = "failed" /\ inv[p].error.kind = "download"
    /\ inv[p].nGet = 2
    /\ ~existsSync(fs, standardInstallDirectory)
    /\ downloaded # {}

\* the paths created or overwritten since the first invocation
Written(f) == { q \in DOMAIN f : q \notin DOMAIN fs0 \/ f[q] # fs0[q] }

\* q is below the directory d
Inside(q, d) == StartsWith(q, d \o sep)

\* C20: whatever the version string, empty ones and ones with '/' or '..'
\* segments included, every directory created and every file written lies
\* inside the cache root, the file at root/version/binary: nothing is created
\* or written outside the root or directly at its top level.
C20_WritesInsideRoot ==
  \A q \in Written(fs) :
    IF fs[q] = DIR THEN q = standardInstallDirectory \/ Inside(q, standardInstallDirectory)
    ELSE Inside(q, standardInstallDirectory) /\ dirname(q) # standardInstallDirectory

\* the part of C20 that the code keeps: a first invocation for a version of
\* one segment
C20_OneSegmentInsideRoot ==
  (calls = 1 /\ \A p \in Procs : Stage(inv[p]) >= 2 => IsOneSegment(inv[p].version)) =>
    \A q \in Written(fs) :
      IF fs[q] = DIR THEN q = standardInstallDirectory \/ Inside(q, standardInstallDirectory)
      ELSE Inside(q, standardInstallDirectory) /\ dirname(q) # standardInstallDirectory

\* ------------------------------------------------------------------------
\* termination of an invocation
\* ------------------------------------------------------------------------

\* how far an invocation is from its end: every step lowers it
Measure(s) ==
  CASE s.pc = "awaitLatest" -> 100
    [] s.pc = "versionKnown" -> 90
    [] s.pc = "awaitDownload" -> 80 - s.nGet
    [] s.pc = "awaitBody" -> 70
    [] s.pc = "mkdir" -> 60 - 2 * s.i
    [] s.pc = "mkdirSync" -> 59 - 2 * s.i
    [] s.pc = "write" -> 20
    [] s.pc = "verify" -> 10
    [] s.pc \in {"idle", "returned", "failed", "uncaught"} -> 0

\* C16: with every request answered or failed and every body ended, every
\* invocation ends by returning an entry or by failing to its caller, and no
\* step of it (version lookup, download, write) is executed a second time.
C16_EndsAtCaller ==
  \A p \in Procs :
    /\ Stage(inv[p]) = 6 => inv[p].pc \in {"returned", "failed"}
    /\ inv[p].nLatest <= 1 /\ inv[p].nDownload <= 1 /\ inv[p].nWrite <= 1

\* the part of C16 that the code keeps: every step of an invocation brings
\* it closer to its end, be that an exception nothing catches, and no step is
\* repeated
C16_EveryStepCloser ==
  /\ [](\A p \in Procs :
          /\ Measure(inv[p]) >= 0
          /\ inv[p].nLatest <= 1 /\ inv[p].nDownload <= 1 /\ inv[p].nWrite <= 1)
  /\ [][\A p \in Procs :
          inv'[p] # inv[p] /\ Stage(inv[p]) \in 1..5 => Measure(inv'[p]) < Measure(inv[p])]_vars

\* ------------------------------------------------------------------------
\* two invocations for the same version, in two processes
\* ------------------------------------------------------------------------

RaceVersion == Some(<<"1",".","6",".","0">>)

\* both callers are active and the cache is empty: without its root, or with
\* an empty root
InitRace ==
  /\ host \in Hosts
  /\ fs \in { Tree({__dirname}, {}), Tree({standardInstallDirectory}, {}) }
  /\ fs0 = fs
  /\ active = Procs
  /\ inv = [p \in Procs |-> Idle]
  /\ downloaded = {}
  /\ calls = 0
  /\ envPath = Undefined /\ probe = "done" /\ command = Undefined
  /\ NoPureCalls

\* the steps of the two invocations interleave at every await and, the
\* callers being two processes, at every system call
NextRace ==
  \E p \in Procs :
    \/ Call(p, RaceVersion)
    \/ CheckInstalled(p)
    \/ \E statusCode \in Statuses, location \in DownloadLocations :
         DownloadResponse(p, statusCode, location)
    \/ DownloadError(p)
    \/ BodyEnd(p)
    \/ MkDirCheck(p)
    \/ MkDirSync(p)
    \/ WriteFile(p)
    \/ Verify(p)

SpecRace == InitRace /\ [][NextRace]_vars

\* both invocations have ended and each of them downloaded the artifact
BothDownloaded ==
  \A p \in Procs : Ended(inv[p]) /\ inv[p].binaryContent # ""

\* C15: two invocations for the same version interleaving on an empty cache
\* may both download and both write the same path; the file ends with the
\* bytes of one of them, both return the entry of the same name, and neither
\* observes or reports an error because of the race.
C15_RaceBothSucceed ==
  BothDownloaded =>
    \A p \in Procs :
      /\ inv[p].pc = "returned"
      /\ Val(inv[p].result).name = releaseNameFor(Val(RaceVersion))
      /\ fs[inv[p].releasePath] \in { Bytes(q) : q \in Procs }

\* the part of C15 that the code keeps: a write leaves the bytes of its
\* writer, and two invocations that both return name the same entry
C15_LastWriterWins ==
  /\ [](\A p, q \in Procs :
          inv[p].pc = "returned" /\ inv[q].pc = "returned" =>
            Val(inv[p].result).name = Val(inv[q].result).name)
  /\ [][\A p \in Procs :
          inv[p].pc = "write" /\ inv'[p].pc = "verify" =>
            fs'[inv[p].releasePath] = Bytes(p)]_vars

\* both invocations wrote the file and returned
C15_BothWrote ==
  \A p \in Procs : inv[p].pc = "returned" /\ inv[p].nWrite = 1

\* ------------------------------------------------------------------------
\* The PATH prober on its own: findBufInPath(process.env.PATH)
\* ------------------------------------------------------------------------

\* the longest PATH, in entries
MaxPathEntries == 2

\* the hosts whose paths are POSIX ones
PosixHosts == { h \in Hosts : ~StartsWith(h.platform, <<"w","i","n">>) }

\* the entries a PATH is made of: a system directory, the local shim
\* directory written without and with a trailing separator, the user-global
\* directory, a directory under "~", and the empty entry (the current
\* directory)
PathDirs == { <<"/","u","s","r","/","b","i","n">>, <<"/","p","r","o","j","/","n","o","d","e","_","m","o","d","u","l","e","s","/",".","b","i","n">>, <<"/","p","r","o","j","/","n","o","d","e","_","m","o","d","u","l","e","s","/",".","b","i","n","/">>,
              <<"/","h","o","m","e","/","u","/",".","n","p","m","-","g","l","o","b","a","l","/","b","i","n">>, <<"~","/","b","i","n">>, << >> }

\* the places a buf executable may be at
BufPlaces == { <<"/","u","s","r","/","b","i","n","/","b","u","f">>, <<"/","p","r","o","j","/","n","o","d","e","_","m","o","d","u","l","e","s","/",".","b","i","n","/","b","u","f">>,
               <<"/","h","o","m","e","/","u","/",".","n","p","m","-","g","l","o","b","a","l","/","b","i","n","/","b","u","f">>, <<"/","h","o","m","e","/","u","/","b","i","n","/","b","u","f">>, <<"/","p","r","o","j","/","b","u","f">> }

PathValues ==
  {Undefined} \cup
  { Some(Join(entries, delimiter)) :
      entries \in UNION { [1..n -> PathDirs] : n \in 1..MaxPathEntries } }

InitPath ==
  /\ host \in PosixHosts
  /\ \E places \in SUBSET BufPlaces :
       fs = Tree({cwd, homedir, <<"/","u","s","r","/","b","i","n">>, <<"/","p","r","o","j","/","n","o","d","e","_","m","o","d","u","l","e","s","/",".","b","i","n">>,
                  <<"/","h","o","m","e","/","u","/",".","n","p","m","-","g","l","o","b","a","l","/","b","i","n">>, <<"/","h","o","m","e","/","u","/","b","i","n">>}, places)
  /\ fs0 = fs
  /\ active = {}
  /\ inv = [p \in Procs |-> Idle]
  /\ downloaded = {}
  /\ calls = 0
  /\ envPath \in PathValues
  /\ probe = "todo"
  /\ command = Undefined
  /\ NoPureCalls

\* buf.js line 30: command = findBufInPath(process.env.PATH)
FindBufInPath ==
  /\ probe = "todo"
  /\ probe' = "done"
  /\ command' = findBufInPath(host, fs, envPath)
  /\ UNCHANGED <<host, fs, fs0, active, inv, downloaded, calls, envPath, pureVars>>

NextPath == FindBufInPath

SpecPath == InitPath /\ [][NextPath]_vars

\* the directory a PATH entry names: "~" is the home directory, a relative
\* entry is taken from the current directory
EntryDir(entry) ==
  IF Len(entry) > 0 /\ entry[1] = "~" THEN resolve(join(homedir, Slice(entry, 1)))
  ELSE resolve(entry)

IsShimDir(dir) ==
  \/ EndsWith(dir, <<"n","o","d","e","_","m","o","d","u","l","e","s","/",".","b","i","n">>)
  \/ EndsWith(dir, <<".","n","p","m","-","g","l","o","b","a","l","/","b","i","n">>)

\* the first entry of the PATH, in its order, that does not end with a shim
\* directory and names a directory holding buf
RECURSIVE FirstEligible(_, _)
FirstEligible(f, entries) ==
  IF Len(entries) = 0 THEN Undefined
  ELSE IF ~IsShimDir(entries[1]) /\ existsSync(f, join(EntryDir(entries[1]), <<"b","u","f">>))
    THEN Some(entries[1])
  ELSE FirstEligible(f, Tail(entries))

\* C10: findBufInPath returns not-found for an unset PATH; otherwise the buf
\* path of the first PATH directory, in PATH order, that does not end with
\* node_modules/.bin or .npm-global/bin and holds buf, not-found when there is
\* none; and never a path inside a shim directory.
C10_PathProbe ==
  probe = "done" =>
    IF ~IsDefined(envPath) THEN command = Undefined
    ELSE LET first == FirstEligible(fs, Split(Val(envPath), delimiter))
         IN  /\ IsDefined(first) <=> IsDefined(command)
             /\ IsDefined(command) =>
                  /\ resolve(Val(command)) = join(EntryDir(Val(first)), <<"b","u","f">>)
                  /\ ~IsShimDir(dirname(resolve(Val(command))))

\* the part of C10 that the code keeps: the choice among the entries
C10_FirstEligible ==
  probe = "done" =>
    IF ~IsDefined(envPath) THEN command = Undefined
    ELSE LET first == FirstEligible(fs, Split(Val(envPath), delimiter))
         IN  /\ IsDefined(first) <=> IsDefined(command)
             /\ IsDefined(command) =>
                  resolve(Val(command)) = join(EntryDir(Val(first)), <<"b","u","f">>)

\* ------------------------------------------------------------------------
\* listInstalled on its own
\* ------------------------------------------------------------------------

\* the directories and the files a cache tree is drawn from: two version
\* folders, a folder with the prefix inside a version folder, files at the
\* top of the cache with and without the prefix, and names with and without
\* the prefix inside the version folders
ListDirs == { standardInstallDirectory,
              join(standardInstallDirectory, <<"1",".","6",".","0">>),
              join(standardInstallDirectory, <<"1",".","7",".","0","/","b","u","f","-","d","i","r">>) }

ListFiles == { join(standardInstallDirectory, <<"R","E","A","D","M","E">>),
               join(standardInstallDirectory, <<"b","u","f","-","s","t","r","a","y">>),
               join(standardInstallDirectory, <<"1",".","6",".","0","/","b","u","f","-","D","a","r","w","i","n","-","a","r","m","6","4">>),
               join(standardInstallDirectory, <<"1",".","6",".","0","/","L","I","C","E","N","S","E">>),
               join(standardInstallDirectory, <<"1",".","7",".","0","/","b","u","f","-","L","i","n","u","x","-","x","8","6","_","6","4">>),
               join(standardInstallDirectory, <<"1",".","7",".","0","/","b","u","f","x">>) }

InitList ==
  /\ host \in Hosts
  /\ \E dirs \in SUBSET ListDirs, files \in SUBSET ListFiles :
       fs = Tree({__dirname} \cup dirs, files)
  /\ fs0 = fs
  /\ active = {}
  /\ inv = [p \in Procs |-> Idle]
  /\ downloaded = {}
  /\ calls = 0
  /\ envPath = Undefined /\ probe = "done" /\ command = Undefined
  /\ NoPureCalls

ListInstalled ==
  /\ ~IsDefined(listCall)
  /\ listCall' = Some(listInstalled(fs, standardInstallDirectory))
  /\ UNCHANGED <<host, fs, fs0, active, inv, downloaded, calls, probeVars,
                 nameCall, configCall, main>>

NextList == ListInstalled

SpecList == InitList /\ [][NextList]_vars

\* the paths of f that are two levels below root, in a directory, under a
\* name starting with 'buf-'
CachedBinaries(f, root) ==
  { q \in DOMAIN f :
      /\ q # root /\ dirname(q) # root /\ dirname(dirname(q)) = root
      /\ f[dirname(q)] = DIR
      /\ StartsWith(basename(q), <<"b","u","f","-">>) }

\* C11: listInstalled returns no entry when the cache root does not exist;
\* otherwise exactly one entry {name: version/binary, version, path} for each
\* name starting with 'buf-' inside each immediate subdirectory of the root,
\* and nothing for root entries that are not directories nor for names
\* without the prefix.
C11_ListInstalled ==
  IsDefined(listCall) =>
    LET root == standardInstallDirectory
        entries == Val(listCall)
    IN  /\ ~existsSync(fs, root) => entries = {}
        /\ \A q \in CachedBinaries(fs, root) :
             Cardinality({ e \in entries : e.bufPath = q }) = 1
        /\ \A e \in entries :
             /\ e.bufPath \in CachedBinaries(fs, root)
             /\ e.version = basename(dirname(e.bufPath))
             /\ e.name = e.version \o <<"/">> \o basename(e.bufPath)

C11_Witness ==
  /\ IsDefined(listCall)
  /\ Cardinality(Val(listCall)) = 3
  /\ existsSync(fs, join(standardInstallDirectory, <<"b","u","f","-","s","t","r","a","y">>))
  /\ existsSync(fs, join(standardInstallDirectory, <<"1",".","6",".","0","/","L","I","C","E","N","S","E">>))
  /\ existsSync(fs, join(standardInstallDirectory, <<"1",".","7",".","0","/","b","u","f","x">>))

\* ------------------------------------------------------------------------
\* findBufVersionConfig on its own
\* ------------------------------------------------------------------------

\* the texts a package.json holds: unparseable, null, a number, a string, an
\* array, objects without config, with a config that is null, a string or
\* an object without bufVersion, with a bufVersion that is a number, and
\* with a bufVersion that is a string (the empty one included)
ManifestTexts ==
  { "{", "null", "42", "\"1.6.0\"", "[]", "{}", "{\"config\":null}",
    "{\"config\":\"1.6.0\"}", "{\"config\":{}}", "{\"config\":{\"bufVersion\":7}}",
    "{\"config\":{\"bufVersion\":\"1.6.0\"}}", "{\"config\":{\"bufVersion\":\"1.7.0\"}}",
    "{\"config\":{\"bufVersion\":\"\"}}" }

\* the directories findBufVersionConfig is started in, the root included
ConfigDirs == { join(cwd, <<"s","u","b">>), cwd, sep }

\* a filesystem with the directories of dirs and a package.json with the
\* text manifests[d] in each directory d of the domain of manifests
WithManifests(dirs, manifests) ==
  LET tree == Tree(dirs, {})
      at(q) == { d \in DOMAIN manifests : join(d, <<"p","a","c","k","a","g","e",".","j","s","o","n">>) = q }
      paths == DOMAIN tree \cup { join(d, <<"p","a","c","k","a","g","e",".","j","s","o","n">>) : d \in DOMAIN manifests }
  IN  [q \in paths |-> IF at(q) # {} THEN manifests[CHOOSE d \in at(q) : TRUE] ELSE tree[q]]

InitConfig ==
  /\ host \in Hosts
  /\ \E where \in SUBSET ConfigDirs : \E manifests \in [where -> ManifestTexts] :
       fs = WithManifests(ConfigDirs, manifests)
  /\ fs0 = fs
  /\ active = {}
  /\ inv = [p \in Procs |-> Idle]
  /\ downloaded = {}
  /\ calls = 0
  /\ envPath = Undefined /\ probe = "done" /\ command = Undefined
  /\ listCall = Undefined
  /\ nameCall = [params |-> [platform |-> << >>, arch |-> << >>, version |-> << >>],
                 out |-> Undefined]
  /\ \E dir \in ConfigDirs : configCall = [cwd |-> dir, out |-> Undefined]
  /\ main = NoMain

FindBufVersionConfig ==
  /\ ~IsDefined(configCall.out)
  /\ configCall' = [configCall EXCEPT !.out = Some(findBufVersionConfig(fs, configCall.cwd))]
  /\ UNCHANGED <<host, fs, fs0, active, inv, downloaded, calls, probeVars,
                 listCall, nameCall, main>>

NextConfig == FindBufVersionConfig

SpecConfig == InitConfig /\ [][NextConfig]_vars

\* what a manifest text defines: the string at config.bufVersion
DefinedBy(text) ==
  CASE text = "{\"config\":{\"bufVersion\":\"1.6.0\"}}" -> Some(<<"1",".","6",".","0">>)
    [] text = "{\"config\":{\"bufVersion\":\"1.7.0\"}}" -> Some(<<"1",".","7",".","0">>)
    [] text = "{\"config\":{\"bufVersion\":\"\"}}" -> Some(<< >>)
    [] OTHER -> Undefined

\* what the manifest of directory d defines, nothing when d has none
DefinedIn(f, d) ==
  LET q == join(d, <<"p","a","c","k","a","g","e",".","j","s","o","n">>)
  IN  IF existsSync(f, q) /\ f[q] # DIR THEN DefinedBy(f[q]) ELSE Undefined

\* the directories from dir up to the root whose manifest defines a version
Defining(f, dir) == { d \in Ancestors(dir) : IsDefined(DefinedIn(f, d)) }

\* what the nearest of them defines
Nearest(f, dir) ==
  IF Defining(f, dir) = {} THEN Undefined
  ELSE DefinedIn(f, CHOOSE d \in Defining(f, dir) :
                      \A e \in Defining(f, dir) : Len(e) <= Len(d))

\* the texts of the manifests from dir up to the root
TextsAbove(f, dir) ==
  { f[join(d, <<"p","a","c","k","a","g","e",".","j","s","o","n">>)] :
      d \in { e \in Ancestors(dir) : existsSync(f, join(e, <<"p","a","c","k","a","g","e",".","j","s","o","n">>)) } }

\* C12: findBufVersionConfig returns the config.bufVersion string of the
\* nearest directory, from cwd upward, whose package.json defines it; missing
\* manifests, unparseable manifests and manifests without the key do not
\* define it; with no such directory up to the root it returns undefined.
C12_NearestManifest ==
  IsDefined(configCall.out) =>
    Val(configCall.out) = Return(Nearest(fs, configCall.cwd))

\* the part of C12 that the code keeps: the walk over manifests none of which
\* is null below the nearest defining one
C12_NearestUnlessNull ==
  IsDefined(configCall.out) /\ Val(configCall.out).tag = "return" =>
    Val(configCall.out) = Return(Nearest(fs, configCall.cwd))

\* C19: findBufVersionConfig never raises an error, whatever the manifests
\* hold: unparseable text, null, a value that is not an object, an object
\* without config, a null config and a bufVersion that is not a string are
\* all not-found, and the result is a string or undefined.
C19_NeverRaises ==
  IsDefined(configCall.out) =>
    /\ Val(configCall.out).tag = "return"
    /\ (\A text \in TextsAbove(fs, configCall.cwd) : ~IsDefined(DefinedBy(text)))
         => Val(configCall.out).value = Undefined

\* ------------------------------------------------------------------------
\* makeReleaseName on its own
\* ------------------------------------------------------------------------

\* values of os.platform() and os.arch(), and version strings
Platforms == { <<"w","i","n","3","2">>, <<"w","i","n","d","o","w","s">>, <<"d","a","r","w","i","n">>, <<"l","i","n","u","x">>, <<"f","r","e","e","b","s","d">>, <<"s","u","n","o","s">> }
Archs == { <<"x","6","4">>, <<"a","r","m","6","4">>, <<"i","a","3","2">>, <<"x","8","6","_","6","4">> }
NameVersions == { <<"1",".","6",".","0">>, <<"1",".","6",".","0","/","r","c">>, <<"v","1",".","6",".","0">>, << >> }

InitName ==
  /\ host \in Hosts
  /\ fs = Tree({__dirname}, {})
  /\ fs0 = fs
  /\ active = {}
  /\ inv = [p \in Procs |-> Idle]
  /\ downloaded = {}
  /\ calls = 0
  /\ envPath = Undefined /\ probe = "done" /\ command = Undefined
  /\ listCall = Undefined
  /\ \E platform \in Platforms, arch \in Archs, version \in NameVersions :
       nameCall = [params |-> [platform |-> platform, arch |-> arch, version |-> version],
                   out |-> Undefined]
  /\ configCall = [cwd |-> sep, out |-> Undefined]
  /\ main = NoMain

MakeReleaseName ==
  /\ ~IsDefined(nameCall.out)
  /\ nameCall' = [nameCall EXCEPT !.out = Some(makeReleaseName(nameCall.params))]
  /\ UNCHANGED <<host, fs, fs0, active, inv, downloaded, calls, probeVars,
                 listCall, configCall, main>>

NextName == MakeReleaseName

SpecName == InitName /\ [][NextName]_vars

\* the platform part of the name, platform by platform
PlatformPart(platform) ==
  CASE platform = <<"w","i","n","3","2">> -> <<"W","i","n","d","o","w","s">>
    [] platform = <<"w","i","n","d","o","w","s">> -> <<"W","i","n","d","o","w","s">>
    [] platform = <<"d","a","r","w","i","n">> -> <<"D","a","r","w","i","n">>
    [] platform = <<"l","i","n","u","x">> -> <<"L","i","n","u","x">>
    [] platform = <<"f","r","e","e","b","s","d">> -> <<"F","r","e","e","b","s","d">>
    [] platform = <<"s","u","n","o","s">> -> <<"S","u","n","o","s">>

\* C13: makeReleaseName returns version/buf-Platform-arch+ext: Windows and
\* '.exe' for a platform beginning with 'win', otherwise the platform with
\* its first letter capitalised and no extension; x86_64 for the architecture
\* x64, any other architecture and the version unchanged; so
\* 1.6.0/buf-Windows-x86_64.exe for (win32, x64, 1.6.0) and
\* 1.6.0/buf-Darwin-arm64 for (darwin, arm64, 1.6.0).
C13_ReleaseName ==
  IsDefined(nameCall.out) =>
    LET params == nameCall.params
        name == Val(nameCall.out)
        win == params.platform \in { <<"w","i","n","3","2">>, <<"w","i","n","d","o","w","s">> }
    IN  /\ name = params.version \o <<"/","b","u","f","-">> \o PlatformPart(params.platform) \o <<"-">>
                   \o (IF params.arch = <<"x","6","4">> THEN <<"x","8","6","_","6","4">> ELSE params.arch)
                   \o (IF win THEN <<".","e","x","e">> ELSE << >>)
        /\ params = [platform |-> <<"w","i","n","3","2">>, arch |-> <<"x","6","4">>, version |-> <<"1",".","6",".","0">>]
             => name = <<"1",".","6",".","0","/","b","u","f","-","W","i","n","d","o","w","s","-","x","8","6","_","6","4",".","e","x","e">>
        /\ params = [platform |-> <<"d","a","r","w","i","n">>, arch |-> <<"a","r","m","6","4">>, version |-> <<"1",".","6",".","0">>]
             => name = <<"1",".","6",".","0","/","b","u","f","-","D","a","r","w","i","n","-","a","r","m","6","4">>

C13_Witness ==
  /\ IsDefined(nameCall.out)
  /\ nameCall.params = [platform |-> <<"w","i","n","3","2">>, arch |-> <<"x","6","4">>, version |-> <<"1",".","6",".","0">>]

\* ------------------------------------------------------------------------
\* src/buf.js: main
\* ------------------------------------------------------------------------

\* the texts of the package.json of the working directory
MainManifests ==
  { "null", "{}", "{\"config\":{\"bufVersion\":\"1.6.0\"}}", "{\"config\":{\"bufVersion\":\"\"}}" }

\* process.argv[1]: the shim of the package, or the script itself
Argv1s == { <<"/","p","r","o","j","/","n","o","d","e","_","m","o","d","u","l","e","s","/",".","b","i","n","/","b","u","f">>, <<"/","l","i","b","/","b","u","f",".","j","s">> }

\* the working directory with or without a package.json, buf in /usr/bin or
\* not, the cache empty or holding 1.6.0 for this host, PATH unset or set
InitMain ==
  /\ host \in PosixHosts
  /\ \E files \in SUBSET { <<"/","u","s","r","/","b","i","n","/","b","u","f">>,
                            join(standardInstallDirectory, releaseNameFor(<<"1",".","6",".","0">>)) } :
     \E manifest \in {Undefined} \cup { Some(text) : text \in MainManifests } :
       fs = LET tree == Tree({cwd, __dirname, <<"/","u","s","r","/","b","i","n">>}, files)
            IN  IF IsDefined(manifest)
                  THEN (join(cwd, <<"p","a","c","k","a","g","e",".","j","s","o","n">>) :> Val(manifest)) @@ tree
                ELSE tree
  /\ fs0 = fs
  /\ active = {"p1"}
  /\ inv = [p \in Procs |-> Idle]
  /\ downloaded = {}
  /\ calls = 0
  /\ envPath \in {Undefined, Some(<<"/","u","s","r","/","b","i","n">>)}
  /\ probe = "done" /\ command = Undefined
  /\ listCall = Undefined
  /\ nameCall = [params |-> [platform |-> << >>, arch |-> << >>, version |-> << >>],
                 out |-> Undefined]
  /\ configCall = [cwd |-> sep, out |-> Undefined]
  /\ \E argv1 \in Argv1s : main = [NoMain EXCEPT !.pc = "start", !.argv1 = argv1]

\* a value is truthy: defined and not the empty string
Truthy(v) == IsDefined(v) /\ Val(v) # << >>

\* lines 22-35, up to the first await or to the end of the branches
MainStart ==
  /\ main.pc = "start"
  /\ LET found == findBufVersionConfig(fs, cwd)
         configuredVersion == found.value
         fromPath == findBufInPath(host, fs, envPath)
         install == /\ inv' = [inv EXCEPT !["p1"] = Called(configuredVersion)]
                    /\ calls' = calls + 1
     IN  IF found.tag = "throw"
           THEN main' = [main EXCEPT !.pc = "rejected"] /\ UNCHANGED <<inv, calls>>
         ELSE IF Truthy(configuredVersion)
           THEN /\ main' = [main EXCEPT !.pc = "await", !.configuredVersion = configuredVersion]
                /\ install
         ELSE IF Truthy(fromPath)
           THEN /\ main' = [main EXCEPT !.pc = "spawn", !.configuredVersion = configuredVersion,
                                         !.probed = TRUE, !.fromPath = fromPath,
                                         !.command = fromPath]
                /\ UNCHANGED <<inv, calls>>
         ELSE /\ main' = [main EXCEPT !.pc = "await", !.configuredVersion = configuredVersion,
                                       !.probed = TRUE, !.fromPath = fromPath]
              /\ install
  /\ UNCHANGED <<host, fs, fs0, active, downloaded, probeVars, listCall, nameCall, configCall>>

\* lines 26-27 and 34-35: ensureInstalled has ended; main goes on with the
\* path of the release, rejects with the error, or dies with the exception
MainAwait ==
  /\ main.pc = "await"
  /\ Ended(inv["p1"])
  /\ main' = CASE inv["p1"].pc = "returned" ->
                   [main EXCEPT !.pc = "spawn", !.command = Some(Val(inv["p1"].result).bufPath)]
              [] inv["p1"].pc = "failed" -> [main EXCEPT !.pc = "rejected"]
              [] inv["p1"].pc = "uncaught" -> [main EXCEPT !.pc = "crashed"]
  /\ UNCHANGED <<host, fs, fs0, active, inv, downloaded, calls, probeVars,
                 listCall, nameCall, configCall>>

\* lines 112-118
getNodeModulesBinPath(argv1) ==
  IF EndsWith(dirname(argv1), <<"n","o","d","e","_","m","o","d","u","l","e","s","/",".","b","i","n">>) THEN Some(dirname(argv1)) ELSE Undefined

\* lines 38-59: PATH is extended, buf is spawned and main exits with its
\* status, or rejects when the spawn failed
MainSpawn ==
  /\ main.pc = "spawn"
  /\ LET nodeModulesBin == getNodeModulesBinPath(main.argv1)
     IN  envPath' = IF IsDefined(nodeModulesBin)
                      THEN Some(Val(nodeModulesBin) \o <<":">> \o
                                (IF IsDefined(envPath) THEN Val(envPath) ELSE <<"u","n","d","e","f","i","n","e","d">>))
                    ELSE envPath
  /\ \E spawned \in BOOLEAN :
       main' = [main EXCEPT !.pc = IF spawned THEN "exited" ELSE "rejected"]
  /\ UNCHANGED <<host, fs, fs0, active, inv, downloaded, calls, probe, command,
                 listCall, nameCall, configCall>>

NextMain ==
  \/ MainStart
  \/ MainAwait
  \/ MainSpawn
  \/ \E p \in active :
       \/ \E statusCode \in Statuses, location \in LatestLocations :
            LatestResponse(p, statusCode, location)
       \/ LatestError(p)
       \/ CheckInstalled(p)
       \/ \E statusCode \in Statuses, location \in DownloadLocations :
            DownloadResponse(p, statusCode, location)
       \/ DownloadError(p)
       \/ BodyEnd(p)
       \/ MkDirCheck(p)
       \/ MkDirSync(p)
       \/ WriteFile(p)
       \/ Verify(p)

SpecMain == InitMain /\ [][NextMain]_vars

\* the three branches of main, for the value v that findBufVersionConfig
\* returned
Branches(v) ==
  /\ IsDefined(v) =>
       /\ ~main.probed
       /\ inv["p1"].arg = v
       /\ main.pc \in {"spawn", "exited"} =>
            /\ inv["p1"].pc = "returned"
            /\ Val(inv["p1"].result).version = Val(v)
            /\ main.command = Some(Val(inv["p1"].result).bufPath)
  /\ ~IsDefined(v) /\ IsDefined(main.fromPath) =>
       /\ main.probed
       /\ inv["p1"].pc = "idle" /\ calls = 0 /\ fs = fs0
       /\ main.command = main.fromPath
  /\ ~IsDefined(v) /\ ~IsDefined(main.fromPath) =>
       /\ main.probed
       /\ needsLatest(inv["p1"].arg) /\ inv["p1"].nLatest = 1
       /\ main.pc \in {"spawn", "exited"} =>
            /\ inv["p1"].pc = "returned"
            /\ IsDefined(inv["p1"].latestLocation)
            /\ main.command = Some(Val(inv["p1"].result).bufPath)

\* main has read the configuration without an error
Configured == main.pc \notin {"off", "start", "rejected"} \/ main.probed \/ calls > 0

\* C18: in main, for every value findBufVersionConfig can return: a
\* configured version is installed and run, PATH not being probed; with no
\* version configured and buf on PATH, the PATH binary is run with no install
\* and no request; with no version configured and buf not on PATH, the latest
\* version is resolved through the latest-release redirect and installed.
C18_MainBranches ==
  Configured => Branches(main.configuredVersion)

\* the part of C18 that the code keeps: every value but the empty string
C18_MainBranchesNonEmpty ==
  Configured /\ main.configuredVersion # Some(<< >>) => Branches(main.configuredVersion)

\* the empty version read as no version at all
C18_MainBranchesEmptyAsNone ==
  Configured =>
    Branches(IF main.configuredVersion = Some(<< >>) THEN Undefined ELSE main.configuredVersion)

====
